---- MODULE Spec2Model ----
(***************************************************************************)
(* Document Context Engine of ExplainX (backend/server.js): the in-memory  *)
(* documentStore, the bootstrap scan, the fs.watch callback and its        *)
(* restart-on-error handler, @mention resolution and the /api/chat         *)
(* pipeline (completion attempt, fallback search, session persistence).    *)
(*                                                                         *)
(* Strings are sequences of one-character strings, so that substring,      *)
(* suffix, case folding, trimming and splitting are computed, not assumed. *)
(* One action is one run of JavaScript between two awaits: Node runs a     *)
(* callback to its next await without interleaving.                        *)
(***************************************************************************)
EXTENDS Integers, Sequences, FiniteSets, Bags, TLC

VARIABLES
    disk,           \* documents directory: present file name -> content
    documentStore,  \* `let documentStore = {}`, in Object.keys order
    clock,          \* last value Date.now() returned
    bootPc,         \* position of the fs.readdir callback
    bootFiles,      \* files of the readdir listing not yet visited
    bootCur,        \* the file processDocument is extracting for bootstrap
    tasks,          \* bag of running fs.watch callback invocations
    watcher,        \* state of the watch subscription
    fsOps,          \* number of directory changes made so far
    processed,      \* history: file on disk -> content processDocument stored
    apiKey,         \* whether GROQ_API_KEY is set
    chatPc,         \* position of the /api/chat handler
    req,            \* req.body of the request being handled
    chatCtx,        \* targetDocumentName, cleanedMessage, matchingDocIds,
                    \* documentContext of the handler
    response,       \* the handler's local `response`
    reply,          \* what res.status(..).json(..) sent
    calls,          \* history: external calls and searches of this request
    upload,         \* the /api/upload request being handled
    listing,        \* body of the last /api/documents response
    window          \* state of the ChatWindow component and of its parent

ingestVars == <<disk, documentStore, clock, bootPc, bootFiles, bootCur, tasks,
                watcher, fsOps, processed>>

chatVars == <<apiKey, chatPc, req, chatCtx, response, reply, calls>>

uploadVars == <<upload, listing>>

\* what neither the ingestion nor the chat handler touches
restVars == <<uploadVars, window>>

vars == <<ingestVars, chatVars, restVars>>

----------------------------------------------------------------------------
(* Bounds of the model *)

MaxClock == 2            \* Date.now() takes the values 1..MaxClock
MaxFsOps == 2            \* directory changes made by the environment
MaxEventsPerChange == 2  \* 'rename' events the OS reports for one change
MaxPending == 2          \* fs.watch callbacks in flight at one time
MaxUploads == 2          \* /api/upload requests
MaxUploadFiles == 2      \* files of one /api/upload request
MaxSends == 2            \* messages the user sends in the chat window
MaxWindowClock == 3      \* Date.now() in the browser takes 1..MaxWindowClock
MaxHistory == 1          \* rows of a stored chat history

----------------------------------------------------------------------------
(* JavaScript string primitives on character sequences *)

Whitespace == {" ", "\n", "\t"}

UpperToLower ==
    [A |-> "a", B |-> "b", C |-> "c", D |-> "d", E |-> "e", F |-> "f",
     G |-> "g", H |-> "h", I |-> "i", J |-> "j", K |-> "k", L |-> "l",
     M |-> "m", N |-> "n", O |-> "o", P |-> "p", Q |-> "q", R |-> "r",
     S |-> "s", T |-> "t", U |-> "u", V |-> "v", W |-> "w", X |-> "x",
     Y |-> "y", Z |-> "z"]

LowerChar(c) == IF c \in DOMAIN UpperToLower THEN UpperToLower[c] ELSE c

\* String.prototype.toLowerCase
toLowerCase(s) == [i \in 1..Len(s) |-> LowerChar(s[i])]

\* String.prototype.includes
includes(hay, needle) ==
    \E i \in 0..(Len(hay) - Len(needle)) :
        SubSeq(hay, i + 1, i + Len(needle)) = needle

\* String.prototype.endsWith
endsWith(s, suffix) ==
    /\ Len(s) >= Len(suffix)
    /\ SubSeq(s, Len(s) - Len(suffix) + 1, Len(s)) = suffix

\* String.prototype.trim
trim(s) ==
    LET keep == {i \in 1..Len(s) : s[i] \notin Whitespace}
        Min(S) == CHOOSE x \in S : \A y \in S : x <= y
        Max(S) == CHOOSE x \in S : \A y \in S : x >= y
    IN  IF keep = {} THEN <<>> ELSE SubSeq(s, Min(keep), Max(keep))

\* path.extname of a base name: from the last '.', unless that is the first
\* character or there is none
extname(name) ==
    LET dots == {i \in 1..Len(name) : name[i] = "."}
        last == CHOOSE x \in dots : \A y \in dots : x >= y
    IN  IF dots = {} THEN <<>>
        ELSE IF last = 1 THEN <<>>
        ELSE SubSeq(name, last, Len(name))

DigitChars == <<"0", "1", "2", "3", "4", "5", "6", "7", "8", "9">>

RECURSIVE Digits(_)
\* Number-to-string conversion of `Date.now() + '-' + ...`
Digits(n) ==
    IF n < 10 THEN <<DigitChars[n + 1]>>
    ELSE Append(Digits(n \div 10), DigitChars[(n % 10) + 1])

ExtPdf == <<".", "p", "d", "f">>
ExtDoc == <<".", "d", "o", "c">>
ExtDocx == <<".", "d", "o", "c", "x">>

----------------------------------------------------------------------------
(* The documents directory and the extractors (environment) *)

NameA == <<"a", ".", "p", "d", "f">>
NameBA == <<"b", "a", ".", "p", "d", "f">>
NameTxt == <<"n", ".", "t", "x", "t">>
NameDotPdf == <<".", "P", "D", "F">>

FileNames == {NameA, NameBA, NameTxt, NameDotPdf}

\* What a file holds: two readable versions, a file the extractor reads as
\* whitespace only, and a file the extractor throws on.
Contents == {"v1", "v2", "blank", "corrupt"}

ContentsOf(f) == IF f = NameA THEN Contents ELSE {"v1"}

\* data.text / result.value of the extractor for a readable file
ExtractedText(c) ==
    IF c = "v1" THEN <<"v", "1">>
    ELSE IF c = "v2" THEN <<"v", "2">>
    ELSE <<" ">>

\* pdfParse / mammoth reject: extractTextFrom* rethrows
ExtractionThrows(c) == c = "corrupt"

PlaceholderPrefix ==
    <<"[", "E", "m", "p", "t", "y", " ", "o", "r", " ", "u", "n", "r", "e",
      "a", "d", "a", "b", "l", "e", " ", "d", "o", "c", "u", "m", "e", "n",
      "t", ":", " ">>

\* `[Empty or unreadable document: ${fileName}]`
Placeholder(fileName) == PlaceholderPrefix \o fileName \o <<"]">>

----------------------------------------------------------------------------
(* documentStore: an object used as an ordered map; string keys enumerate  *)
(* in insertion order, assignment to an existing key keeps its position    *)

Keys(store) == [i \in 1..Len(store) |-> store[i].id]

HasKey(store, key) == \E i \in 1..Len(store) : store[i].id = key

\* documentStore[docId] = {...}
Upsert(store, rec) ==
    IF HasKey(store, rec.id)
    THEN [i \in 1..Len(store) |->
            IF store[i].id = rec.id THEN rec ELSE store[i]]
    ELSE Append(store, rec)

\* delete documentStore[docId]
DeleteKey(store, key) == SelectSeq(store, LAMBDA r : r.id # key)

\* Date.now() + '-' + fileName
DocId(now, fileName) == Digits(now) \o <<"-">> \o fileName

\* Date.now() is non-decreasing; two reads may fall in the same millisecond
NowChoices == {t \in {clock, clock + 1} : t <= MaxClock}

----------------------------------------------------------------------------
(* processDocument *)

\* the three-way test on path.extname(filePath).toLowerCase()
DispatchKindNoReject(fileName) ==
    IF toLowerCase(extname(fileName)) = ExtPdf THEN "pdf" ELSE "word"

DispatchKind(fileName) ==
    LET fileExt == toLowerCase(extname(fileName))
    IN  IF fileExt = ExtPdf THEN "pdf"
        ELSE IF fileExt \in {ExtDoc, ExtDocx} THEN "word"
        ELSE "unsupported"

\* processDocument up to its await: "missing" and "unsupported" return,
\* "extract" has read the file and awaits the parser
ProcessStart(fileName) ==
    IF fileName \notin DOMAIN disk THEN "missing"
    ELSE IF DispatchKind(fileName) = "unsupported" THEN "unsupported"
    ELSE "extract"

\* processDocument without its catch for the extractor: a file the
\* extractor throws on is stored like an empty one
StoreExtractedKeepsFailed(store, fileName, c, now) ==
    LET raw == IF ExtractionThrows(c) THEN <<>> ELSE ExtractedText(c)
        text == IF trim(raw) = <<>> THEN Placeholder(fileName) ELSE raw
    IN  Upsert(store, [id |-> DocId(now, fileName),
                       name |-> fileName,
                       text |-> text])

\* processDocument after the await: the catch block swallows a throw, blank
\* text becomes the placeholder, the record is stored under a fresh key
StoreExtracted(store, fileName, c, now) ==
    IF ExtractionThrows(c) THEN store
    ELSE LET raw == ExtractedText(c)
             text == IF trim(raw) = <<>> THEN Placeholder(fileName) ELSE raw
         IN  Upsert(store, [id |-> DocId(now, fileName),
                            name |-> fileName,
                            text |-> text])

\* history: processDocument stored a record of content c for a file that is
\* on disk
MarkProcessed(fileName, c) ==
    IF ~ExtractionThrows(c) /\ fileName \in DOMAIN disk
    THEN [g \in DOMAIN processed \cup {fileName} |->
            IF g = fileName THEN c ELSE processed[g]]
    ELSE processed

\* the test `file.toLowerCase().endsWith('.pdf') || ... '.doc' || ... '.docx'`
HasSupportedSuffix(file) ==
    \/ endsWith(toLowerCase(file), ExtPdf)
    \/ endsWith(toLowerCase(file), ExtDoc)
    \/ endsWith(toLowerCase(file), ExtDocx)

----------------------------------------------------------------------------
(* Bootstrap: fs.readdir(documentsDir, async (err, files) => ...) *)

NoFile == [file |-> <<>>, content |-> "none"]

\* the callback runs with the listing, or with err and returns
BootReaddir ==
    /\ watcher # "crashed"
    /\ bootPc = "readdir"
    /\ \E err \in BOOLEAN :
        IF err
        THEN bootPc' = "done" /\ bootFiles' = {}
        ELSE bootPc' = "loop" /\ bootFiles' = DOMAIN disk
    /\ UNCHANGED <<disk, documentStore, clock, bootCur, tasks, watcher, fsOps,
                   processed>>
    /\ UNCHANGED <<chatVars, restVars>>

\* one iteration of `for (const file of files)` up to the await in
\* processDocument
BootVisit(file) ==
    /\ watcher # "crashed"
    /\ bootPc = "loop"
    /\ file \in bootFiles
    /\ bootFiles' = bootFiles \ {file}
    /\ IF HasSupportedSuffix(file) /\ ProcessStart(file) = "extract"
       THEN /\ bootPc' = "extract"
            /\ bootCur' = [file |-> file, content |-> disk[file]]
       ELSE /\ bootPc' = IF bootFiles' = {} THEN "done" ELSE "loop"
            /\ bootCur' = NoFile
    /\ UNCHANGED <<disk, documentStore, clock, tasks, watcher, fsOps,
                   processed>>
    /\ UNCHANGED <<chatVars, restVars>>

\* the extractor settles and processDocument stores the record
BootStore ==
    /\ watcher # "crashed"
    /\ bootPc = "extract"
    /\ \E now \in NowChoices :
        /\ clock' = now
        /\ documentStore' =
              StoreExtracted(documentStore, bootCur.file, bootCur.content, now)
    /\ processed' = MarkProcessed(bootCur.file, bootCur.content)
    /\ bootPc' = IF bootFiles = {} THEN "done" ELSE "loop"
    /\ bootCur' = NoFile
    /\ UNCHANGED <<disk, bootFiles, tasks, watcher, fsOps>>
    /\ UNCHANGED <<chatVars, restVars>>

\* a listing without files ends the loop
BootEmpty ==
    /\ watcher # "crashed"
    /\ bootPc = "loop"
    /\ bootFiles = {}
    /\ bootPc' = "done"
    /\ UNCHANGED <<disk, documentStore, clock, bootFiles, bootCur, tasks,
                   watcher, fsOps, processed>>
    /\ UNCHANGED <<chatVars, restVars>>

----------------------------------------------------------------------------
(* fs.watch(documentsDir, { persistent: true }, async (eventType, filename)) *)

Settling(file) == [file |-> file, stage |-> "settle", content |-> "none"]

\* the 'rename' events the subscription hands to the callback for one change
\* of the directory: none once the first watcher has failed, because the
\* replacement is created with `watcher.listener`, which is undefined
Emit(file, n) ==
    IF watcher = "watching" THEN tasks (+) (Settling(file) :> n) ELSE tasks

\* the model lets a change happen only while its callbacks fit
CanEmit(n) == watcher # "watching" \/ BagCardinality(tasks) + n <= MaxPending

\* the first key, in Object.keys order, that contains filename
FindKey(store, filename) ==
    LET hits == {i \in 1..Len(store) : includes(store[i].id, filename)}
    IN  IF hits = {} THEN <<>>
        ELSE store[CHOOSE i \in hits : \A j \in hits : i <= j].id

\* the deletion branch: at most one key is deleted
RemoveByFileName(store, filename) ==
    LET docId == FindKey(store, filename)
    IN  IF docId = <<>> THEN store ELSE DeleteKey(store, docId)

\* the callback after its one-second timer, up to the await in
\* processDocument or to its end
WatchSettle(t) ==
    /\ watcher # "crashed"
    /\ BagIn(t, tasks)
    /\ t.stage = "settle"
    /\ IF t.file \in DOMAIN disk /\ HasSupportedSuffix(t.file)
       THEN /\ documentStore' = documentStore
            /\ IF ProcessStart(t.file) = "extract"
               THEN tasks' = (tasks (-) SetToBag({t})) (+)
                        SetToBag({[file |-> t.file, stage |-> "extract",
                                   content |-> disk[t.file]]})
               ELSE tasks' = tasks (-) SetToBag({t})
       ELSE IF t.file \notin DOMAIN disk
       THEN /\ documentStore' = RemoveByFileName(documentStore, t.file)
            /\ tasks' = tasks (-) SetToBag({t})
       ELSE /\ documentStore' = documentStore
            /\ tasks' = tasks (-) SetToBag({t})
    /\ UNCHANGED <<disk, clock, bootPc, bootFiles, bootCur, watcher, fsOps,
                   processed>>
    /\ UNCHANGED <<chatVars, restVars>>

\* the extractor settles, processDocument stores the record and the callback
\* ends
WatchStore(t) ==
    /\ watcher # "crashed"
    /\ BagIn(t, tasks)
    /\ t.stage = "extract"
    /\ \E now \in NowChoices :
        /\ clock' = now
        /\ documentStore' = StoreExtracted(documentStore, t.file, t.content, now)
    /\ processed' = MarkProcessed(t.file, t.content)
    /\ tasks' = tasks (-) SetToBag({t})
    /\ UNCHANGED <<disk, bootPc, bootFiles, bootCur, watcher, fsOps>>
    /\ UNCHANGED <<chatVars, restVars>>

\* the subscription fails: Node closes the handle and emits 'error'; the
\* handler arms a one-second timer
WatcherError ==
    /\ watcher = "watching"
    /\ watcher' = "errored"
    /\ UNCHANGED <<disk, documentStore, clock, bootPc, bootFiles, bootCur,
                   tasks, fsOps, processed>>
    /\ UNCHANGED <<chatVars, restVars>>

\* the timer: watcher.close(); fs.watch(documentsDir, watcher.listener).
\* FSWatcher has no `listener` property, so the new subscription has neither
\* a 'change' listener nor an 'error' listener
WatcherRestart ==
    /\ watcher = "errored"
    /\ watcher' = "resubscribed"
    /\ UNCHANGED <<disk, documentStore, clock, bootPc, bootFiles, bootCur,
                   tasks, fsOps, processed>>
    /\ UNCHANGED <<chatVars, restVars>>

\* the second subscription fails: 'error' is emitted with no listener, which
\* throws and ends the process
WatcherErrorAgain ==
    /\ watcher = "resubscribed"
    /\ watcher' = "crashed"
    /\ UNCHANGED <<disk, documentStore, clock, bootPc, bootFiles, bootCur,
                   tasks, fsOps, processed>>
    /\ UNCHANGED <<chatVars, restVars>>

----------------------------------------------------------------------------
(* The environment changes the documents directory *)

FsCreate(file, c, n) ==
    /\ watcher # "crashed"
    /\ fsOps < MaxFsOps
    /\ file \notin DOMAIN disk
    /\ CanEmit(n)
    /\ disk' = [g \in DOMAIN disk \cup {file} |->
                  IF g = file THEN c ELSE disk[g]]
    /\ tasks' = Emit(file, n)
    /\ fsOps' = fsOps + 1
    /\ UNCHANGED <<documentStore, clock, bootPc, bootFiles, bootCur, watcher,
                   processed>>
    /\ UNCHANGED <<chatVars, restVars>>

FsDelete(file, n) ==
    /\ watcher # "crashed"
    /\ fsOps < MaxFsOps
    /\ file \in DOMAIN disk
    /\ CanEmit(n)
    /\ disk' = [g \in DOMAIN disk \ {file} |-> disk[g]]
    /\ tasks' = Emit(file, n)
    /\ fsOps' = fsOps + 1
    /\ processed' = [g \in DOMAIN processed \ {file} |-> processed[g]]
    /\ UNCHANGED <<documentStore, clock, bootPc, bootFiles, bootCur, watcher>>
    /\ UNCHANGED <<chatVars, restVars>>

\* a write into an existing file is reported as 'change', which the callback
\* ignores (`eventType === 'rename'`)
FsModify(file, c) ==
    /\ watcher # "crashed"
    /\ fsOps < MaxFsOps
    /\ file \in DOMAIN disk
    /\ c # disk[file]
    /\ disk' = [disk EXCEPT ![file] = c]
    /\ fsOps' = fsOps + 1
    /\ UNCHANGED <<documentStore, clock, bootPc, bootFiles, bootCur, tasks,
                   watcher, processed>>
    /\ UNCHANGED <<chatVars, restVars>>

----------------------------------------------------------------------------
(* Texts, documents and questions of the chat model *)

\* "Report.pdf"
NameReport ==
    <<"R", "e", "p", "o", "r", "t", ".", "p", "d", "f">>

\* "report_v2.docx"
NameReportV2 ==
    <<"r", "e", "p", "o", "r", "t", "_", "v", "2", ".", "d", "o", "c", "x">>

\* "Budget.pdf"
NameBudget ==
    <<"B", "u", "d", "g", "e", "t", ".", "p", "d", "f">>

\* "scan.pdf"
NameScan ==
    <<"s", "c", "a", "n", ".", "p", "d", "f">>

\* "latency is the delay of a single request"
ParaLatency ==
    <<"l", "a", "t", "e", "n", "c", "y", " ", "i", "s", " ", "t", "h",
      "e", " ", "d", "e", "l", "a", "y", " ", "o", "f", " ", "a", " ",
      "s", "i", "n", "g", "l", "e", " ", "r", "e", "q", "u", "e", "s", "t">>

\* "latency and throughput trade off under load"
ParaBoth ==
    <<"l", "a", "t", "e", "n", "c", "y", " ", "a", "n", "d", " ", "t",
      "h", "r", "o", "u", "g", "h", "p", "u", "t", " ", "t", "r", "a",
      "d", "e", " ", "o", "f", "f", " ", "u", "n", "d", "e", "r", " ",
      "l", "o", "a", "d">>

\* "latency note"
ParaShort ==
    <<"l", "a", "t", "e", "n", "c", "y", " ", "n", "o", "t", "e">>

\* "throughput counts requests served per second"
ParaThroughput ==
    <<"t", "h", "r", "o", "u", "g", "h", "p", "u", "t", " ", "c", "o",
      "u", "n", "t", "s", " ", "r", "e", "q", "u", "e", "s", "t", "s",
      " ", "s", "e", "r", "v", "e", "d", " ", "p", "e", "r", " ", "s",
      "e", "c", "o", "n", "d">>

\* "SUMMARY: latency budget for the next quarter"
ParaBudget ==
    <<"S", "U", "M", "M", "A", "R", "Y", ":", " ", "l", "a", "t", "e",
      "n", "c", "y", " ", "b", "u", "d", "g", "e", "t", " ", "f", "o",
      "r", " ", "t", "h", "e", " ", "n", "e", "x", "t", " ", "q", "u",
      "a", "r", "t", "e", "r">>

\* "@report summarize"
MsgReportSummarize ==
    <<"@", "r", "e", "p", "o", "r", "t", " ", "s", "u", "m", "m", "a",
      "r", "i", "z", "e">>

\* "@nothere latency"
MsgNotHere ==
    <<"@", "n", "o", "t", "h", "e", "r", "e", " ", "l", "a", "t", "e",
      "n", "c", "y">>

\* "explain latency and throughput tradeoffs"
MsgTradeoffs ==
    <<"e", "x", "p", "l", "a", "i", "n", " ", "l", "a", "t", "e", "n",
      "c", "y", " ", "a", "n", "d", " ", "t", "h", "r", "o", "u", "g",
      "h", "p", "u", "t", " ", "t", "r", "a", "d", "e", "o", "f", "f", "s">>

\* "@report_v2  latency"
MsgReportV2 ==
    <<"@", "r", "e", "p", "o", "r", "t", "_", "v", "2", " ", " ", "l",
      "a", "t", "e", "n", "c", "y">>

\* "hi"
MsgHi ==
    <<"h", "i">>

\* "summarize"
Summarize ==
    <<"s", "u", "m", "m", "a", "r", "i", "z", "e">>

Blank2 == <<"\n", "\n">>

TextReport == ParaLatency \o Blank2 \o ParaShort \o Blank2 \o ParaBoth
TextReportV2 == ParaThroughput
TextBudget == ParaBudget

Doc(now, name, text) == [id |-> DocId(now, name), name |-> name, text |-> text]

StoreReports == <<Doc(1, NameReport, TextReport), Doc(2, NameReportV2, TextReportV2)>>

StoreThree == Append(StoreReports, Doc(3, NameBudget, TextBudget))

\* the one record of an upload whose extractor returned no text: the upload
\* handler stores `text` as extracted
StoreBlank == <<Doc(1, NameScan, <<>>)>>

ChatStores == {<<>>, StoreReports, StoreThree, StoreBlank}

Messages == {MsgReportSummarize, MsgNotHere, MsgTradeoffs, MsgReportV2, MsgHi}

NoChatId == "none"

ChatIds == {NoChatId, "c1"}

----------------------------------------------------------------------------
(* Splitting and the mention pattern *)

\* whether s[i] lies in a run of at least minRun separator characters
InSeparator(s, i, sep, minRun) ==
    /\ s[i] \in sep
    /\ \E a \in 1..i : \E b \in i..Len(s) :
          /\ b - a + 1 >= minRun
          /\ \A k \in a..b : s[k] \in sep

\* String.prototype.split on /\s+/ (minRun 1) and on /\n\n+/ (minRun 2): the
\* pieces between the separator runs, with an empty piece before a leading
\* run and after a trailing one
split(s, sep, minRun) ==
    LET cut == {i \in 1..Len(s) : InSeparator(s, i, sep, minRun)}
        starts == {i \in 1..Len(s) \ cut : i = 1 \/ (i - 1) \in cut}
        EndOf(i) == CHOOSE e \in i..Len(s) :
                       /\ \A k \in i..e : k \notin cut
                       /\ e = Len(s) \/ (e + 1) \in cut
        Nth(k) == CHOOSE i \in starts :
                     Cardinality({j \in starts : j <= i}) = k
        pieces == [k \in 1..Cardinality(starts) |->
                      SubSeq(s, Nth(k), EndOf(Nth(k)))]
        lead == IF Len(s) = 0 \/ 1 \in cut THEN <<(<<>>)>> ELSE <<>>
        trail == IF Len(s) > 0 /\ Len(s) \in cut THEN <<(<<>>)>> ELSE <<>>
    IN  lead \o pieces \o trail

NoMention == [found |-> FALSE, target |-> <<>>, rest |-> <<>>]

\* the rightmost '@' that a non-whitespace character follows
MentionMatchLast(message) ==
    LET starts == {i \in 1..(Len(message) - 1) :
                      message[i] = "@" /\ message[i + 1] \notin Whitespace}
        at == CHOOSE i \in starts : \A j \in starts : i >= j
        stop == CHOOSE e \in (at + 1)..Len(message) :
                   /\ \A k \in (at + 1)..e : message[k] \notin Whitespace
                   /\ e = Len(message) \/ message[e + 1] \in Whitespace
    IN  IF starts = {} THEN NoMention
        ELSE [found |-> TRUE,
              target |-> SubSeq(message, at + 1, stop),
              rest |-> SubSeq(message, 1, at - 1)
                         \o SubSeq(message, stop + 1, Len(message))]

\* message.match(/@([^\s]+)/) and message.replace of the same pattern: the
\* leftmost '@' that a non-whitespace character follows, and the longest run
\* of non-whitespace characters after it
MentionMatch(message) ==
    LET starts == {i \in 1..(Len(message) - 1) :
                      message[i] = "@" /\ message[i + 1] \notin Whitespace}
        at == CHOOSE i \in starts : \A j \in starts : i <= j
        stop == CHOOSE e \in (at + 1)..Len(message) :
                   /\ \A k \in (at + 1)..e : message[k] \notin Whitespace
                   /\ e = Len(message) \/ message[e + 1] \in Whitespace
    IN  IF starts = {} THEN NoMention
        ELSE [found |-> TRUE,
              target |-> SubSeq(message, at + 1, stop),
              rest |-> SubSeq(message, 1, at - 1)
                         \o SubSeq(message, stop + 1, Len(message))]

\* Object.keys(documentStore).filter(docId => name.toLowerCase()
\*    .includes(targetDocumentName.toLowerCase()))
MatchingDocIds(store, target) ==
    SelectSeq(Keys(store),
              LAMBDA docId :
                 \E i \in 1..Len(store) :
                    /\ store[i].id = docId
                    /\ includes(toLowerCase(store[i].name), toLowerCase(target)))

RECURSIVE JoinFrom(_, _)
JoinFrom(store, i) ==
    IF i > Len(store) THEN <<>>
    ELSE IF i = Len(store) THEN store[i].text
    ELSE store[i].text \o Blank2 \o JoinFrom(store, i + 1)

\* Object.values(documentStore).map(doc => doc.text).join('\n\n')
AllTexts(store) == JoinFrom(store, 1)

TextOf(store, docId) ==
    (CHOOSE r \in {store[i] : i \in 1..Len(store)} : r.id = docId).text

\* the context assembly taking the last matching document instead of
\* matchingDocIds[0]
DocumentContextLast(store, m) ==
    IF m.found
    THEN LET matchingDocIds == MatchingDocIds(store, m.target)
         IN  IF Len(matchingDocIds) > 0
             THEN TextOf(store, matchingDocIds[Len(matchingDocIds)])
             ELSE AllTexts(store)
    ELSE AllTexts(store)

\* the context assembly: the first matching document, or all documents
DocumentContext(store, m) ==
    IF m.found
    THEN LET matchingDocIds == MatchingDocIds(store, m.target)
         IN  IF Len(matchingDocIds) > 0
             THEN TextOf(store, matchingDocIds[1])
             ELSE AllTexts(store)
    ELSE AllTexts(store)

----------------------------------------------------------------------------
(* The fallback document search *)

MinKeywordLength == 3
MinParagraphLength == 30
DensityBonus == 500
HeadingBonus == 2
HeadingMinLength == 20
HeadingMaxLength == 200
TopCount == 5
PromptContextLimit == 1500

\* cleanedMessage.toLowerCase().split(/\s+/).filter(word => word.length > 3)
Keywords(cleanedMessage) ==
    SelectSeq(split(toLowerCase(cleanedMessage), Whitespace, 1),
              LAMBDA word : Len(word) > MinKeywordLength)

\* doc.text.split(/\n\n+/).map(p => p.trim()).filter(p => p.length > 30)
Paragraphs(text) ==
    LET parts == split(text, {"\n"}, 2)
        trimmed == [i \in 1..Len(parts) |-> trim(parts[i])]
    IN  SelectSeq(trimmed, LAMBDA q : Len(q) > MinParagraphLength)

\* keywords.filter(keyword => paragraphLower.includes(keyword)).length
MatchScore(keywords, paragraph) ==
    Len(SelectSeq(keywords,
                  LAMBDA keyword : includes(toLowerCase(paragraph), keyword)))

IsUpper(c) == c \in DOMAIN UpperToLower

\* the heading test: 20 < length < 200 and a ':' or /[A-Z][A-Z]/
LooksLikeHeading(paragraph) ==
    /\ Len(paragraph) < HeadingMaxLength
    /\ Len(paragraph) > HeadingMinLength
    /\ \/ \E i \in 1..Len(paragraph) : paragraph[i] = ":"
       \/ \E i \in 1..(Len(paragraph) - 1) :
             IsUpper(paragraph[i]) /\ IsUpper(paragraph[i + 1])

\* relevanceScore without the boosts for several keywords
RelevanceScoreMatchesOnly(keywords, paragraph) ==
    LET matchScore == MatchScore(keywords, paragraph)
        den == Len(paragraph) + 1
    IN  [num |-> (matchScore
                  + (IF LooksLikeHeading(paragraph) THEN HeadingBonus ELSE 0))
                 * den,
         den |-> den]

\* relevanceScore, kept exact as the fraction num / den with
\* den = paragraph.length + 1 (the code adds 500 / (paragraph.length + 1))
RelevanceScore(keywords, paragraph) ==
    LET matchScore == MatchScore(keywords, paragraph)
        whole == matchScore
                 + (IF matchScore > 1 THEN 2 ^ (matchScore - 1) ELSE 0)
                 + (IF LooksLikeHeading(paragraph) THEN HeadingBonus ELSE 0)
        den == Len(paragraph) + 1
    IN  [num |-> whole * den + (IF matchScore > 1 THEN DensityBonus ELSE 0),
         den |-> den]

\* a.score > b.score
ScoreGreater(a, b) == a.num * b.den > b.num * a.den

\* the paragraphs of one document that match a keyword, in paragraph order
ScoredParagraphs(doc, keywords) ==
    LET paragraphs == Paragraphs(doc.text)
        hits == SelectSeq(paragraphs,
                          LAMBDA q : MatchScore(keywords, q) > 0)
    IN  [i \in 1..Len(hits) |->
            [text |-> hits[i],
             score |-> RelevanceScore(keywords, hits[i]),
             source |-> doc.name]]

RECURSIVE MatchingFrom(_, _, _)
MatchingFrom(docs, i, keywords) ==
    IF i > Len(docs) THEN <<>>
    ELSE ScoredParagraphs(docs[i], keywords)
            \o MatchingFrom(docs, i + 1, keywords)

\* Object.values(documentStore).forEach(doc => ...): every document of the
\* store, whether or not the question named one
MatchingParagraphs(store, keywords) == MatchingFrom(store, 1, keywords)

\* one step of a sort that puts x in front of the elements of equal score
InsertByScoreBeforeTies(sorted, x) ==
    LET notGreater == {k \in 1..Len(sorted) :
                          ~ScoreGreater(sorted[k].score, x.score)}
        at == IF notGreater = {} THEN Len(sorted) + 1
              ELSE CHOOSE k \in notGreater : \A j \in notGreater : k <= j
    IN  SubSeq(sorted, 1, at - 1) \o <<x>> \o SubSeq(sorted, at, Len(sorted))

\* one step of a stable sort by descending score: x goes behind every
\* element whose score is not smaller
InsertByScore(sorted, x) ==
    LET smaller == {k \in 1..Len(sorted) : ScoreGreater(x.score, sorted[k].score)}
        at == IF smaller = {} THEN Len(sorted) + 1
              ELSE CHOOSE k \in smaller : \A j \in smaller : k <= j
    IN  SubSeq(sorted, 1, at - 1) \o <<x>> \o SubSeq(sorted, at, Len(sorted))

RECURSIVE SortFrom(_, _, _)
SortFrom(items, i, sorted) ==
    IF i > Len(items) THEN sorted
    ELSE SortFrom(items, i + 1, InsertByScore(sorted, items[i]))

\* matchingParagraphs.sort((a, b) => b.score - a.score)
SortByScore(items) == SortFrom(items, 1, <<>>)

\* the fallback search without the test topResults.length > 0
FallbackSearchAlwaysLists(store, cleanedMessage) ==
    LET sorted == SortByScore(MatchingParagraphs(store, Keywords(cleanedMessage)))
    IN  [kind |-> "search",
         results |-> SubSeq(sorted, 1, IF Len(sorted) < TopCount
                                       THEN Len(sorted) ELSE TopCount)]

\* the fallback search and the answer it composes
FallbackSearch(store, cleanedMessage) ==
    LET sorted == SortByScore(MatchingParagraphs(store, Keywords(cleanedMessage)))
        topResults == SubSeq(sorted, 1,
                             IF Len(sorted) < TopCount THEN Len(sorted)
                             ELSE TopCount)
    IN  IF Len(topResults) > 0
        THEN [kind |-> "search", results |-> topResults]
        ELSE [kind |-> "noMatch", results |-> <<>>]

----------------------------------------------------------------------------
(* app.post('/api/chat') *)

NoRequest == [message |-> <<>>, chatId |-> NoChatId]

NoContext == [found |-> FALSE, target |-> <<>>, cleaned |-> <<>>,
              matching |-> <<>>, context |-> <<>>]

NoResponse == [kind |-> "none", results |-> <<>>]

NoReply == [status |-> 0, success |-> FALSE, answer |-> NoResponse,
            target |-> <<>>, chatId |-> NoChatId]

\* history of one request; `assembled` is the store the context was built
\* from and `searched` the store the fallback search enumerated
NoCalls == [completion |-> 0, outcome |-> "none", search |-> 0,
            persist |-> 0, prompt |-> <<>>, replies |-> 0,
            assembled |-> <<>>, searched |-> <<>>]

Answer(kind) == [kind |-> kind, results |-> <<>>]

\* res.status(status).json({ success, answer, chatId })
Send(status, success, answer, target, chatId) ==
    /\ reply' = [status |-> status, success |-> success, answer |-> answer,
                 target |-> target, chatId |-> chatId]
    /\ calls' = [calls EXCEPT !.replies = @ + 1]
    /\ chatPc' = "done"

\* Object.keys(documentStore).length === 0
StoreIsEmptyNever(store) == FALSE

StoreIsEmpty(store) == Len(store) = 0

\* the mention names no document: matchingDocIds.length === 0
MentionUnresolvedNever(m, matching) == FALSE

MentionUnresolved(m, matching) == m.found /\ Len(matching) = 0

\* the handler from its start to its first await (the fetch of the
\* completion) or to its return
ChatReceive(message, chatId) ==
    /\ chatPc = "idle"
    /\ req' = [message |-> message, chatId |-> chatId]
    /\ IF StoreIsEmpty(documentStore)
       THEN /\ Send(400, FALSE, Answer("noDocuments"), <<>>, NoChatId)
            /\ UNCHANGED <<chatCtx, response>>
       ELSE LET m == MentionMatch(message)
                cleanedMessage == IF m.found THEN trim(m.rest) ELSE message
                matching == IF m.found
                            THEN MatchingDocIds(documentStore, m.target)
                            ELSE <<>>
                documentContext == DocumentContext(documentStore, m)
            IN  /\ chatCtx' = [found |-> m.found, target |-> m.target,
                               cleaned |-> cleanedMessage,
                               matching |-> matching,
                               context |-> IF MentionUnresolved(m, matching)
                                           THEN <<>> ELSE documentContext]
                /\ UNCHANGED response
                /\ IF MentionUnresolved(m, matching)
                   THEN Send(400, FALSE, Answer("notFound"), m.target, NoChatId)
                   ELSE IF trim(documentContext) = <<>>
                   THEN Send(400, FALSE, Answer("noDocuments"), <<>>, NoChatId)
                   ELSE IF ~apiKey
                   THEN Send(500, FALSE, Answer("configError"), <<>>, NoChatId)
                   ELSE /\ chatPc' = "fetch"
                        /\ calls' = [calls EXCEPT
                              !.completion = @ + 1,
                              !.assembled = documentStore,
                              !.prompt = SubSeq(documentContext, 1,
                                    IF Len(documentContext) < PromptContextLimit
                                    THEN Len(documentContext)
                                    ELSE PromptContextLimit)]
                        /\ reply' = reply
    /\ UNCHANGED <<ingestVars, restVars, apiKey>>

\* req.body.message is undefined
Undefined == <<"undefined">>

\* a request without a message: the empty-store check comes first, then
\* message.match throws a TypeError, which the outer catch answers with 500
ChatReceiveNoMessage(chatId) ==
    /\ chatPc = "idle"
    /\ req' = [message |-> Undefined, chatId |-> chatId]
    /\ IF StoreIsEmpty(documentStore)
       THEN Send(400, FALSE, Answer("noDocuments"), <<>>, NoChatId)
       ELSE Send(500, FALSE, Answer("serverError"), <<>>, NoChatId)
    /\ UNCHANGED <<ingestVars, restVars, apiKey, chatCtx, response>>

CompletionOutcomes == {"ok", "networkError", "badStatus", "malformed"}

\* where the persistence block first awaits
PersistStart(chatId) == IF chatId # NoChatId THEN "saveHistory" ELSE "createChat"

\* what the try block around the fetch turns into a throw: a rejected fetch,
\* a response that is not ok, a body without choices[0].message.content
IsCompletionFailureNarrow(outcome) == outcome \in {"networkError", "badStatus"}

IsCompletionFailure(outcome) == outcome # "ok"

\* the completion service accepts the request and never answers: fetch is
\* called without a timeout or an abort signal, so its promise stays pending
\* and the handler stays at the await
FetchNeverSettles ==
    /\ chatPc = "fetch"
    /\ chatPc' = "stalled"
    /\ UNCHANGED <<ingestVars, restVars, apiKey, req, chatCtx, response, reply,
                   calls>>

\* the fetch settles, with the document search run before the outcome of the
\* completion is looked at
FetchSettleSearchesFirst(outcome) ==
    /\ chatPc = "fetch"
    /\ response' = IF ~IsCompletionFailure(outcome)
                   THEN Answer("completion")
                   ELSE FallbackSearch(documentStore, chatCtx.cleaned)
    /\ calls' = [calls EXCEPT !.outcome = outcome, !.search = @ + 1,
                              !.searched = documentStore,
                              !.persist = @ + 1]
    /\ chatPc' = PersistStart(req.chatId)
    /\ UNCHANGED <<ingestVars, restVars, apiKey, req, chatCtx, reply>>

\* the fetch settles, with the document search run over the documents the
\* context was assembled from instead of the store as it is now
FetchSettleSearchesSnapshot(outcome) ==
    /\ chatPc = "fetch"
    /\ IF ~IsCompletionFailure(outcome)
       THEN /\ response' = Answer("completion")
            /\ calls' = [calls EXCEPT !.outcome = outcome, !.persist = @ + 1]
       ELSE /\ response' = FallbackSearch(calls.assembled, chatCtx.cleaned)
            /\ calls' = [calls EXCEPT !.outcome = outcome, !.search = @ + 1,
                                      !.searched = calls.assembled,
                                      !.persist = @ + 1]
    /\ chatPc' = PersistStart(req.chatId)
    /\ UNCHANGED <<ingestVars, restVars, apiKey, req, chatCtx, reply>>

\* the fetch settles; a failure of any kind reaches the outer catch, which runs
\* the document search; then the handler runs to the first Supabase call
FetchSettle(outcome) ==
    /\ chatPc = "fetch"
    /\ IF ~IsCompletionFailure(outcome)
       THEN /\ response' = Answer("completion")
            /\ calls' = [calls EXCEPT !.outcome = outcome, !.persist = @ + 1]
       ELSE /\ response' = FallbackSearch(documentStore, chatCtx.cleaned)
            /\ calls' = [calls EXCEPT !.outcome = outcome, !.search = @ + 1,
                                      !.searched = documentStore,
                                      !.persist = @ + 1]
    /\ chatPc' = PersistStart(req.chatId)
    /\ UNCHANGED <<ingestVars, restVars, apiKey, req, chatCtx, reply>>

\* chat_history insert for an existing chat: the result of the insert is not
\* inspected, and a throw is caught and ignored
SaveHistorySettle(outcome) ==
    /\ chatPc = "saveHistory"
    /\ outcome \in {"ok", "error", "throws"}
    /\ Send(200, TRUE, response, <<>>, req.chatId)
    /\ UNCHANGED <<ingestVars, restVars, apiKey, req, chatCtx, response>>

\* chats insert for a new session, with a returned error turned into an
\* error response
CreateChatSettleFails(outcome) ==
    /\ chatPc = "createChat"
    /\ IF outcome = "ok"
       THEN /\ chatPc' = "saveFirst"
            /\ calls' = [calls EXCEPT !.persist = @ + 1]
            /\ reply' = reply
       ELSE IF outcome = "error"
       THEN Send(500, FALSE, Answer("serverError"), <<>>, NoChatId)
       ELSE Send(200, TRUE, response, <<>>, NoChatId)
    /\ UNCHANGED <<ingestVars, restVars, apiKey, req, chatCtx, response>>

\* chats insert for a new session, with the `return` missing where a returned
\* error is answered: the handler goes on and answers a second time
CreateChatSettleNoReturn(outcome) ==
    /\ chatPc = "createChat"
    /\ IF outcome = "ok"
       THEN /\ chatPc' = "saveFirst"
            /\ calls' = [calls EXCEPT !.persist = @ + 1]
            /\ reply' = reply
       ELSE IF outcome = "error"
       THEN /\ reply' = [status |-> 200, success |-> TRUE, answer |-> response,
                         target |-> <<>>, chatId |-> NoChatId]
            /\ calls' = [calls EXCEPT !.replies = @ + 2]
            /\ chatPc' = "done"
       ELSE Send(200, TRUE, response, <<>>, NoChatId)
    /\ UNCHANGED <<ingestVars, restVars, apiKey, req, chatCtx, response>>

\* chats insert for a new session: a returned error and a throw both answer
\* without a chat id
CreateChatSettle(outcome) ==
    /\ chatPc = "createChat"
    /\ IF outcome = "ok"
       THEN /\ chatPc' = "saveFirst"
            /\ calls' = [calls EXCEPT !.persist = @ + 1]
            /\ reply' = reply
       ELSE Send(200, TRUE, response, <<>>, NoChatId)
    /\ UNCHANGED <<ingestVars, restVars, apiKey, req, chatCtx, response>>

\* first chat_history insert of the new session
SaveFirstSettle(outcome) ==
    /\ chatPc = "saveFirst"
    /\ outcome \in {"ok", "error", "throws"}
    /\ Send(200, TRUE, response, <<>>, "new")
    /\ UNCHANGED <<ingestVars, restVars, apiKey, req, chatCtx, response>>

----------------------------------------------------------------------------
(* app.post('/api/upload', upload.array('documents'), ...) and             *)
(* app.get('/api/documents')                                               *)

\* a file of the multipart body that the fileFilter lets through
UploadFiles ==
    {[name |-> NameA, mime |-> "pdf", content |-> c] : c \in Contents}
        \cup {[name |-> NameBA, mime |-> "word", content |-> "v1"]}

\* req.files
UploadRequests ==
    UNION {[1..n -> UploadFiles] : n \in 0..MaxUploadFiles}

\* `sent` is history: the number of files of the request
NoUpload == [pc |-> "idle", files |-> <<>>, status |-> 0, count |-> 0,
             sent |-> 0]

NamesOf(files) == {files[i].name : i \in 1..Len(files)}

\* diskStorage: every file is written to documentsDir as
\* Date.now() + '-' + file.originalname
SavedByMulter(dir, files, now) ==
    LET written == {DocId(now, f) : f \in NamesOf(files)}
        ContentFor(g) ==
            LET last == CHOOSE i \in 1..Len(files) :
                            /\ DocId(now, files[i].name) = g
                            /\ \A j \in 1..Len(files) :
                                  DocId(now, files[j].name) = g => j <= i
            IN  files[last].content
    IN  [g \in DOMAIN dir \cup written |->
            IF g \in written THEN ContentFor(g) ELSE dir[g]]

\* one 'rename' event for each file multer created
EmitAll(bag, names) ==
    IF watcher = "watching"
    THEN bag (+) SetToBag({Settling(g) : g \in names})
    ELSE bag

\* documentStore[docId] = { id, name: file.originalname, text, uploadDate }
StoreUploaded(store, file, now) ==
    Upsert(store, [id |-> DocId(now, file.name),
                   name |-> file.name,
                   text |-> ExtractedText(file.content)])

\* req.files as multer hands them over: file.path is where the file was
\* written
WithPaths(files, now) ==
    [i \in 1..Len(files) |->
        [name |-> files[i].name, mime |-> files[i].mime,
         content |-> files[i].content,
         path |-> DocId(now, files[i].name)]]

\* fs.readFileSync(file.path): what the directory holds under that name now;
\* a missing file makes the extractor throw
ReadUploaded(dir, file) ==
    IF file.path \in DOMAIN dir THEN dir[file.path] ELSE "corrupt"

\* multer stores the files, then the handler runs to the extractor call of
\* the first file, or answers at once when there is none
UploadReceive(files) ==
    /\ watcher # "crashed"
    /\ upload.pc \in {"idle", "done"}
    /\ upload.count < MaxUploads
    /\ \E now \in NowChoices :
        LET created == {DocId(now, f) : f \in NamesOf(files)} \ DOMAIN disk
        IN  /\ CanEmit(Cardinality(created))
            /\ clock' = now
            /\ disk' = SavedByMulter(disk, files, now)
            /\ tasks' = EmitAll(tasks, created)
            /\ upload' = IF Len(files) = 0
                         THEN [pc |-> "done", files |-> <<>>, status |-> 200,
                               count |-> upload.count + 1, sent |-> 0]
                         ELSE [pc |-> "extract", files |-> WithPaths(files, now),
                               status |-> 0, count |-> upload.count + 1,
                               sent |-> Len(files)]
    /\ UNCHANGED <<documentStore, bootPc, bootFiles, bootCur, watcher, fsOps,
                   processed>>
    /\ UNCHANGED <<chatVars, listing, window>>

\* the extractor of the current file settles: a throw ends the request with
\* status 500, otherwise the record is stored and the loop goes on
UploadExtracted ==
    /\ watcher # "crashed"
    /\ upload.pc = "extract"
    /\ LET file == Head(upload.files)
           rest == Tail(upload.files)
           read == ReadUploaded(disk, file)
       IN  IF ExtractionThrows(read)
           THEN /\ upload' = [upload EXCEPT !.pc = "done", !.files = <<>>,
                                            !.status = 500]
                /\ UNCHANGED <<documentStore, clock>>
           ELSE /\ \E now \in NowChoices :
                     /\ clock' = now
                     /\ documentStore' =
                           StoreUploaded(documentStore,
                                         [file EXCEPT !.content = read], now)
                /\ upload' = IF Len(rest) = 0
                             THEN [upload EXCEPT !.pc = "done", !.files = <<>>,
                                                 !.status = 200]
                             ELSE [upload EXCEPT !.files = rest]
    /\ UNCHANGED <<disk, bootPc, bootFiles, bootCur, tasks, watcher, fsOps,
                   processed>>
    /\ UNCHANGED <<chatVars, listing, window>>

\* Object.values(documentStore).map(doc => ({ id, name, type, uploadDate }))
\* taken from the last record to the first
DocumentsListingReversed(store) ==
    [i \in 1..Len(store) |->
        [id |-> store[Len(store) + 1 - i].id,
         name |-> store[Len(store) + 1 - i].name,
         type |-> IF endsWith(toLowerCase(store[Len(store) + 1 - i].name), ExtPdf)
                  THEN "pdf" ELSE "word"]]

\* Object.values(documentStore).map(doc => ({ id, name, type, uploadDate }))
DocumentsListing(store) ==
    [i \in 1..Len(store) |->
        [id |-> store[i].id,
         name |-> store[i].name,
         type |-> IF endsWith(toLowerCase(store[i].name), ExtPdf)
                  THEN "pdf" ELSE "word"]]

\* no listing was requested; `at` is history: the store the listing was
\* taken from
NoListing == [documents |-> <<>>, at |-> <<>>]

\* GET /api/documents
ListDocuments ==
    /\ watcher # "crashed"
    /\ listing' = [documents |-> DocumentsListing(documentStore),
                   at |-> documentStore]
    /\ UNCHANGED <<ingestVars, chatVars, upload, window>>

----------------------------------------------------------------------------
(* ChatWindow (components/ChatWindow.tsx) and its parent (pages/Index.tsx) *)

\* selectedChatId === null, chatId === ""
NoSelection == ""

\* chats of the sidebar, and the id the server gives a new session
WindowChats == {"A", "B"}
NewChatId == "N"

NoHistoryData == [chat |-> NoSelection, success |-> FALSE, rows |-> 0]

NoSend == [pc |-> "idle", loadingId |-> <<>>, chatId |-> NoSelection]

WindowIdle ==
    [messages |-> <<>>, isLoading |-> FALSE, chatId |-> NoSelection,
     selectedChatId |-> NoSelection, hasLoadedHistory |-> FALSE,
     historyData |-> NoHistoryData, send |-> NoSend, now |-> 1, sends |-> 0]

UserPrefix == <<"u", "s", "e", "r", "-">>
AssistantPrefix == <<"a", "s", "s", "i", "s", "t", "a", "n", "t", "-">>

\* historyData.history.flatMap(msg => [user message, assistant message])
HistoryMessages(rows) ==
    [i \in 1..(2 * rows) |->
        IF i % 2 = 1
        THEN [id |-> UserPrefix \o Digits((i + 1) \div 2), type |-> "user"]
        ELSE [id |-> AssistantPrefix \o Digits(i \div 2), type |-> "assistant"]]

\* the effect on [historyData, selectedChatId, hasLoadedHistory]
HistoryEffect(w) ==
    IF /\ w.historyData.chat = w.selectedChatId
       /\ w.historyData.success
       /\ ~w.hasLoadedHistory
       /\ w.selectedChatId # NoSelection
    THEN [w EXCEPT !.messages = HistoryMessages(w.historyData.rows),
                   !.chatId = w.selectedChatId,
                   !.hasLoadedHistory = TRUE]
    ELSE w

\* the effect on [selectedChatId]
SelectionEffect(w) ==
    IF w.selectedChatId # w.chatId
    THEN IF w.selectedChatId = NoSelection
         THEN [w EXCEPT !.messages = <<>>, !.chatId = NoSelection,
                        !.hasLoadedHistory = FALSE]
         ELSE [w EXCEPT !.hasLoadedHistory = FALSE]
    ELSE w

\* setSelectedChatId in Index: a new query key has no data until its fetch
\* settles
Selected(w, c) ==
    [w EXCEPT !.selectedChatId = c, !.historyData = NoHistoryData]

\* handleSelectChat / handleNewChat of the parent, and the effects of the
\* render that follows
WindowSelectChat(c) ==
    /\ c # window.selectedChatId
    /\ window' = SelectionEffect(Selected(window, c))
    /\ UNCHANGED <<ingestVars, chatVars, uploadVars>>

\* getChatHistory settles for the selected chat
WindowHistoryArrives(success, rows) ==
    /\ window.selectedChatId # NoSelection
    /\ window.historyData.chat # window.selectedChatId
    /\ window' = HistoryEffect(
                    [window EXCEPT !.historyData =
                        [chat |-> window.selectedChatId,
                         success |-> success,
                         rows |-> IF success THEN rows ELSE 0]])
    /\ UNCHANGED <<ingestVars, chatVars, uploadVars>>

\* messages.map(msg => msg.id === loadingMessageId ? assistant : msg)
ReplaceLoading(messages, loadingMessageId) ==
    [i \in 1..Len(messages) |->
        IF messages[i].id = loadingMessageId
        THEN [id |-> messages[i].id, type |-> "assistant"]
        ELSE messages[i]]

\* handleSendMessage up to `await sendMessage(content, chatId)`; ChatInput
\* submits only while isLoading is false
WindowSend ==
    /\ ~window.isLoading
    /\ window.sends < MaxSends
    /\ \E t1 \in {window.now, window.now + 1} : \E t2 \in {t1, t1 + 1} :
        /\ t2 <= MaxWindowClock
        /\ window' =
              [window EXCEPT
                 !.messages = @ \o <<[id |-> Digits(t1), type |-> "user"],
                                     [id |-> Digits(t2 + 1), type |-> "loading"]>>,
                 !.isLoading = TRUE,
                 !.send = [pc |-> "inflight", loadingId |-> Digits(t2 + 1),
                           chatId |-> window.chatId],
                 !.now = t2,
                 !.sends = @ + 1]
    /\ UNCHANGED <<ingestVars, chatVars, uploadVars>>

\* what sendMessage resolves to: the JSON body of the server, or its own
\* { success: false } when fetch or response.json() rejects
SendResults(chatId) ==
    {[success |-> TRUE, chatId |-> IF chatId = NoSelection THEN c ELSE chatId] :
        c \in {NoSelection, NewChatId}}
      \cup {[success |-> FALSE, chatId |-> chatId]}

\* handleSendMessage after the await, through catch and finally
WindowSendSettle(result) ==
    /\ window.send.pc = "inflight"
    /\ result \in SendResults(window.send.chatId)
    /\ LET adopted == /\ result.success
                      /\ window.send.chatId = NoSelection
                      /\ result.chatId # NoSelection
           w1 == IF adopted
                 THEN IF result.chatId # window.selectedChatId
                      THEN Selected([window EXCEPT !.chatId = result.chatId],
                                    result.chatId)
                      ELSE [window EXCEPT !.chatId = result.chatId]
                 ELSE window
           w2 == [w1 EXCEPT
                    !.messages = ReplaceLoading(@, window.send.loadingId),
                    !.isLoading = FALSE,
                    !.send = NoSend]
       IN  window' = IF w2.selectedChatId # window.selectedChatId
                     THEN SelectionEffect(w2) ELSE w2
    /\ UNCHANGED <<ingestVars, chatVars, uploadVars>>

----------------------------------------------------------------------------
(* Specifications *)

EmptyDisk == [g \in {} |-> "v1"]

InitDisks ==
    {EmptyDisk,
     [g \in {NameA} |-> "v1"],
     [g \in {NameBA} |-> "v1"],
     [g \in {NameA, NameTxt} |-> "v1"]}

\* no upload, no listing, a freshly mounted chat window
RestIdle ==
    /\ upload = NoUpload
    /\ listing = NoListing
    /\ window = WindowIdle

\* no chat request has arrived
ChatIdle ==
    /\ chatPc = "idle"
    /\ req = NoRequest
    /\ chatCtx = NoContext
    /\ response = NoResponse
    /\ reply = NoReply
    /\ calls = NoCalls

Init ==
    /\ disk \in InitDisks
    /\ documentStore = <<>>
    /\ clock = 1
    /\ bootPc = "readdir"
    /\ bootFiles = {}
    /\ bootCur = NoFile
    /\ tasks = EmptyBag
    /\ watcher = "watching"
    /\ fsOps = 0
    /\ processed = EmptyDisk
    /\ ChatIdle
    /\ apiKey = TRUE
    /\ RestIdle

Next ==
    \/ BootReaddir
    \/ \E file \in FileNames : BootVisit(file)
    \/ BootStore
    \/ BootEmpty
    \/ \E t \in BagToSet(tasks) : WatchSettle(t)
    \/ \E t \in BagToSet(tasks) : WatchStore(t)
    \/ \E file \in FileNames : \E c \in ContentsOf(file) :
          \E n \in 1..MaxEventsPerChange : FsCreate(file, c, n)
    \/ \E file \in FileNames : \E n \in 1..MaxEventsPerChange :
          FsDelete(file, n)
    \/ \E file \in FileNames : \E c \in ContentsOf(file) : FsModify(file, c)

Spec == Init /\ [][Next]_vars

\* ingestion with failures of the watch subscription
NextRestart ==
    \/ Next
    \/ WatcherError
    \/ WatcherRestart
    \/ WatcherErrorAgain

SpecRestart == Init /\ [][NextRestart]_vars

\* ingestion at rest
IngestIdle ==
    /\ disk = EmptyDisk
    /\ clock = 1
    /\ bootPc = "done"
    /\ bootFiles = {}
    /\ bootCur = NoFile
    /\ tasks = EmptyBag
    /\ watcher = "watching"
    /\ fsOps = 0
    /\ processed = EmptyDisk

\* one chat request against a store the server can hold, with or without an
\* API key
InitChat ==
    /\ IngestIdle
    /\ documentStore \in ChatStores
    /\ apiKey \in BOOLEAN
    /\ ChatIdle
    /\ RestIdle

NextChat ==
    \/ \E message \in Messages : \E chatId \in ChatIds :
          ChatReceive(message, chatId)
    \/ \E outcome \in CompletionOutcomes : FetchSettle(outcome)
    \/ \E outcome \in {"ok", "error", "throws"} : SaveHistorySettle(outcome)
    \/ \E outcome \in {"ok", "error", "throws"} : CreateChatSettle(outcome)
    \/ \E outcome \in {"ok", "error", "throws"} : SaveFirstSettle(outcome)

SpecChat == InitChat /\ [][NextChat]_vars

\* chat requests of every kind, with and without a message
NextReply ==
    \/ NextChat
    \/ \E chatId \in ChatIds : ChatReceiveNoMessage(chatId)

SpecReply == InitChat /\ [][NextReply]_vars

MaxMessageLength == 5

MentionAlphabet == {"@", " ", "R", "v"}

\* every question of at most MaxMessageLength characters over the alphabet
GeneratedMessages ==
    UNION {[1..n -> MentionAlphabet] : n \in 0..MaxMessageLength}

\* mention resolution of one question against Report.pdf and report_v2.docx
InitMention ==
    /\ IngestIdle
    /\ documentStore = StoreReports
    /\ apiKey = TRUE
    /\ ChatIdle
    /\ RestIdle

NextMention ==
    \E message \in GeneratedMessages \cup {MsgReportSummarize} :
        ChatReceive(message, NoChatId)

SpecMention == InitMention /\ [][NextMention]_vars

\* the server after an empty bootstrap
ServerIdle ==
    /\ IngestIdle
    /\ documentStore = <<>>
    /\ apiKey = TRUE
    /\ ChatIdle
    /\ RestIdle

\* uploads and the watcher callbacks for the files multer writes
NextUpload ==
    \/ \E files \in UploadRequests : UploadReceive(files)
    \/ UploadExtracted
    \/ \E t \in BagToSet(tasks) : WatchSettle(t)
    \/ \E t \in BagToSet(tasks) : WatchStore(t)

SpecUpload == ServerIdle /\ [][NextUpload]_vars

\* the read paths next to a writer: the bootstrap scan, document listings
\* and one chat request that ends in the fallback search
InitRead ==
    /\ disk \in InitDisks \cup {[g \in {NameA, NameBA} |-> "v1"]}
    /\ documentStore = <<>>
    /\ clock = 1
    /\ bootPc = "readdir"
    /\ bootFiles = {}
    /\ bootCur = NoFile
    /\ tasks = EmptyBag
    /\ watcher = "watching"
    /\ fsOps = 0
    /\ processed = EmptyDisk
    /\ ChatIdle
    /\ apiKey = TRUE
    /\ RestIdle

NextRead ==
    \/ BootReaddir
    \/ \E file \in FileNames : BootVisit(file)
    \/ BootStore
    \/ BootEmpty
    \/ ListDocuments
    \/ ChatReceive(MsgHi, NoChatId)
    \/ FetchSettle("networkError")
    \/ CreateChatSettle("error")

SpecRead == InitRead /\ [][NextRead]_vars

\* the chat window with a user who sends messages and changes chats
NextWindow ==
    \/ \E c \in WindowChats \cup {NoSelection} : WindowSelectChat(c)
    \/ \E success \in BOOLEAN : \E rows \in 0..MaxHistory :
          WindowHistoryArrives(success, rows)
    \/ WindowSend
    \/ \E result \in SendResults(window.send.chatId) : WindowSendSettle(result)

SpecWindow == ServerIdle /\ [][NextWindow]_vars

\* chat requests against a completion service that may never answer; every
\* step of the handler that is enabled is eventually taken
NextStall ==
    \/ NextChat
    \/ FetchNeverSettles

SpecStall == InitChat /\ [][NextStall]_vars /\ WF_vars(NextStall)

MaxFillerUnits == 7

WordLatency == <<"l", "a", "t", "e", "n", "c", "y">>
WordThroughput == <<"t", "h", "r", "o", "u", "g", "h", "p", "u", "t">>
WordTradeoffs == <<"t", "r", "a", "d", "e", "o", "f", "f", "s">>

\* "note"
MsgNote == <<"n", "o", "t", "e">>

\* k * 30 characters without a keyword
Filler(k) == [i \in 1..(k * MinParagraphLength) |-> "x"]

\* paragraphs with one, two or three keywords of MsgTradeoffs, with and
\* without a ':', shorter and longer than the heading limit
GeneratedParagraphs ==
    {words \o mark \o <<" ">> \o Filler(k) :
        words \in {WordLatency,
                   WordThroughput,
                   WordLatency \o <<" ">> \o WordThroughput,
                   WordLatency \o <<" ">> \o WordThroughput
                       \o <<" ">> \o WordTradeoffs},
        mark \in {<<>>, <<":">>},
        k \in {1, MaxFillerUnits}}

SearchStores ==
    {<<Doc(1, NameReport, p \o Blank2 \o q)>> :
        p \in GeneratedParagraphs, q \in GeneratedParagraphs}
      \cup {StoreReports}

SearchMessages == {MsgTradeoffs, MsgHi, MsgNote}

\* one chat request whose completion call fails
InitSearch ==
    /\ IngestIdle
    /\ documentStore \in SearchStores
    /\ apiKey = TRUE
    /\ ChatIdle
    /\ RestIdle

NextSearch ==
    \/ \E message \in SearchMessages : ChatReceive(message, NoChatId)
    \/ \E outcome \in {"networkError", "badStatus"} : FetchSettle(outcome)
    \/ \E outcome \in {"error"} : CreateChatSettle(outcome)

SpecSearch == InitSearch /\ [][NextSearch]_vars

\* "latency latency"
MsgLatencyTwice == WordLatency \o <<" ">> \o WordLatency

RepeatMessages == {WordLatency, MsgLatencyTwice, MsgTradeoffs}

RepeatStores ==
    {<<Doc(1, NameReport, p)>> : p \in GeneratedParagraphs}
      \cup {StoreReports, StoreThree}

\* one chat request whose question may repeat a word and whose completion
\* call fails
InitRepeat ==
    /\ IngestIdle
    /\ documentStore \in RepeatStores
    /\ apiKey = TRUE
    /\ ChatIdle
    /\ RestIdle

NextRepeat ==
    \/ \E message \in RepeatMessages : \E chatId \in ChatIds :
          ChatReceive(message, chatId)
    \/ \E outcome \in {"networkError", "badStatus"} : FetchSettle(outcome)
    \/ \E outcome \in {"ok", "error", "throws"} : SaveHistorySettle(outcome)
    \/ \E outcome \in {"ok", "error", "throws"} : CreateChatSettle(outcome)
    \/ \E outcome \in {"ok", "error", "throws"} : SaveFirstSettle(outcome)

SpecRepeat == InitRepeat /\ [][NextRepeat]_vars

MaxRankParagraphs == 3

RankParagraphs == {ParaLatency, ParaThroughput, ParaBoth, ParaBudget}

RECURSIVE JoinParagraphs(_)
\* the paragraphs of a text, separated by blank lines
JoinParagraphs(ps) ==
    IF Len(ps) = 0 THEN <<>>
    ELSE IF Len(ps) = 1 THEN ps[1]
    ELSE ps[1] \o Blank2 \o JoinParagraphs(Tail(ps))

\* Report.pdf with up to MaxRankParagraphs paragraphs in any order, stored
\* before a Budget.pdf of four paragraphs
RankStores ==
    {<<Doc(1, NameReport, JoinParagraphs(ps)),
       Doc(2, NameBudget,
           JoinParagraphs(<<ParaThroughput, ParaLatency, ParaBudget,
                            ParaLatency>>))>> :
        ps \in UNION {[1..n -> RankParagraphs] : n \in 1..MaxRankParagraphs}}

\* one chat request over documents with more matching paragraphs than the
\* answer lists, whose completion call fails
InitRank ==
    /\ IngestIdle
    /\ documentStore \in RankStores
    /\ apiKey = TRUE
    /\ ChatIdle
    /\ RestIdle

NextRank ==
    \/ ChatReceive(MsgTradeoffs, NoChatId)
    \/ \E outcome \in {"networkError", "badStatus"} : FetchSettle(outcome)
    \/ \E outcome \in {"error", "throws"} : CreateChatSettle(outcome)

SpecRank == InitRank /\ [][NextRank]_vars

\* "@a hi", "@ba hi", "@zz hi"
MsgAtA == <<"@", "a", " ", "h", "i">>
MsgAtBa == <<"@", "b", "a", " ", "h", "i">>
MsgAtZz == <<"@", "z", "z", " ", "h", "i">>

LiveMessages == {MsgAtA, MsgAtBa, MsgAtZz}

\* one chat request with a mention while the bootstrap scan fills the store
NextLive ==
    \/ BootReaddir
    \/ \E file \in FileNames : BootVisit(file)
    \/ BootStore
    \/ BootEmpty
    \/ \E message \in LiveMessages : ChatReceive(message, NoChatId)
    \/ \E outcome \in {"ok", "networkError"} : FetchSettle(outcome)
    \/ \E outcome \in {"error", "throws"} : CreateChatSettle(outcome)

SpecLive == InitRead /\ [][NextLive]_vars

----------------------------------------------------------------------------
(* Properties of ingestion *)

\* no bootstrap loop and no fs.watch callback is running
Quiescent == bootPc = "done" /\ tasks = EmptyBag

RecordsNamed(store, f) == {i \in 1..Len(store) : store[i].name = f}

\* an extension of the list .pdf/.doc/.docx, compared case-insensitively
SupportedExtension(f) ==
    toLowerCase(extname(f)) \in {ExtPdf, ExtDoc, ExtDocx}

ReadableNonEmpty == {"v1", "v2"}

\* C1 (as claimed): in every quiescent state a record for a file name exists
\* if and only if a file of that name is on disk with a supported extension
\* and has been processed.
C1_StoreMatchesDisk ==
    Quiescent =>
        \A f \in FileNames :
            (RecordsNamed(documentStore, f) # {}) <=>
                (/\ f \in DOMAIN disk
                 /\ HasSupportedSuffix(f)
                 /\ f \in DOMAIN processed)

\* C2 (as claimed): once the watcher events have settled, a file whose
\* present, readable, non-empty content was ingested has exactly one record,
\* and that record carries the text the extractor gives for that content.
C2_OneFreshRecord ==
    Quiescent =>
        \A f \in DOMAIN disk :
            (/\ f \in DOMAIN processed
             /\ processed[f] = disk[f]
             /\ disk[f] \in ReadableNonEmpty)
            => /\ Cardinality(RecordsNamed(documentStore, f)) = 1
               /\ \A i \in RecordsNamed(documentStore, f) :
                     documentStore[i].text = ExtractedText(disk[f])

\* C3 (as claimed): the callback that finds its file deleted leaves no record
\* of that file in the store, and the callback that extracted a re-created
\* file leaves a record of it.
C3_DeleteRemovesEveryRecord ==
    [][\A t \in BagToSet(tasks) :
          /\ (t.stage = "settle" /\ t.file \notin DOMAIN disk /\ WatchSettle(t))
                => RecordsNamed(documentStore', t.file) = {}
          /\ (t.stage = "extract" /\ ~ExtractionThrows(t.content)
                 /\ WatchStore(t))
                => RecordsNamed(documentStore', t.file) # {}]_vars

\* C9 (as claimed): after the restart a created or deleted file still starts
\* a callback, and a second failure of the subscription does not end the
\* process.
C9_RestartKeepsIngesting ==
    [][/\ \A f \in FileNames :
            (/\ watcher = "resubscribed"
             /\ SupportedExtension(f)
             /\ (f \in DOMAIN disk) # (f \in DOMAIN disk'))
            => BagIn(Settling(f), tasks')
       /\ watcher' # "crashed"]_vars

\* C10: no record of the store names a file with an unsupported extension;
\* in this specification every record is stored by the bootstrap scan or by a
\* watcher callback.
C10_UnsupportedNeverStored ==
    \A i \in 1..Len(documentStore) : SupportedExtension(documentStore[i].name)

\* C10 witness: the scan listed n.txt beside a.pdf and stored a.pdf, the
\* hidden file .PDF was created under the watcher, and every callback ended.
C10_Witness ==
    /\ Quiescent
    /\ NameTxt \in DOMAIN disk
    /\ NameDotPdf \in DOMAIN disk
    /\ RecordsNamed(documentStore, NameA) # {}
    /\ fsOps > 0

----------------------------------------------------------------------------
(* Properties of the chat handler *)

\* a mention token: '@' at i followed by the non-whitespace run i+1..j that
\* ends at the end of the question or before a whitespace character
TokenAt(msg, i, j) ==
    /\ msg[i] = "@"
    /\ j > i
    /\ \A k \in (i + 1)..j : msg[k] \notin Whitespace
    /\ j = Len(msg) \/ msg[j + 1] \in Whitespace

HasToken(msg) == \E i \in 1..Len(msg) : \E j \in i..Len(msg) : TokenAt(msg, i, j)

FirstToken(msg, i, j) ==
    /\ TokenAt(msg, i, j)
    /\ \A h \in 1..(i - 1) : \A e \in h..Len(msg) : ~TokenAt(msg, h, e)

\* the records whose name contains the target, compared case-insensitively
NameMatches(store, target) ==
    {store[i].id : i \in {k \in 1..Len(store) :
        includes(toLowerCase(store[k].name), toLowerCase(target))}}

SeqRange(q) == {q[i] : i \in 1..Len(q)}

\* the mention of the request names some record, or there is no mention
MentionResolves(msg, store) ==
    \A i \in 1..Len(msg) : \A j \in i..Len(msg) :
        FirstToken(msg, i, j) => NameMatches(store, SubSeq(msg, i + 1, j)) # {}

FallbackKinds == {"search", "noMatch"}

C5_UnmatchedMentionNotFound ==
    (chatPc = "done" /\ HasToken(req.message)
       /\ ~MentionResolves(req.message, documentStore))
    => /\ reply.answer.kind = "notFound"
       /\ \E i \in 1..Len(req.message) : \E j \in i..Len(req.message) :
             /\ FirstToken(req.message, i, j)
             /\ reply.target = SubSeq(req.message, i + 1, j)
       /\ calls.completion = 0
       /\ calls.search = 0
       /\ calls.prompt = <<>>

\* C5 (amended): the same, for a store that is not empty; whatever the
\* store, such a request makes no completion call, runs no search and
\* assembles no prompt.
C5_UnmatchedMentionNotFoundNonEmpty ==
    (HasToken(req.message) /\ ~MentionResolves(req.message, documentStore))
    => /\ chatPc \in {"idle", "done"}
       /\ calls.completion = 0
       /\ calls.search = 0
       /\ calls.prompt = <<>>
       /\ (chatPc = "done" /\ Len(documentStore) > 0) =>
             /\ reply.status = 400
             /\ reply.answer.kind = "notFound"
             /\ \E i \in 1..Len(req.message) : \E j \in i..Len(req.message) :
                   /\ FirstToken(req.message, i, j)
                   /\ reply.target = SubSeq(req.message, i + 1, j)

C5_Witness ==
    /\ chatPc = "done"
    /\ req.message = MsgNotHere
    /\ documentStore = StoreThree
    /\ reply.answer.kind = "notFound"

\* C6: with an empty store a request is answered in the step that receives
\* it, with the no-documents answer, and no completion call, search or
\* persistence call is made.
C6_EmptyStoreShortCircuits ==
    Len(documentStore) = 0
    => /\ chatPc \in {"idle", "done"}
       /\ calls.completion = 0
       /\ calls.search = 0
       /\ calls.persist = 0
       /\ chatPc = "done" =>
             /\ reply.status = 400
             /\ reply.answer.kind = "noDocuments"
             /\ calls.replies = 1

C6_Witness ==
    /\ chatPc = "done"
    /\ Len(documentStore) = 0
    /\ req.message = MsgReportSummarize
    /\ reply.answer.kind = "noDocuments"

\* the first PromptContextLimit characters of a text
PromptPrefix(text) ==
    SubSeq(text, 1, IF Len(text) < PromptContextLimit
                    THEN Len(text) ELSE PromptContextLimit)

\* C7 (as claimed): when the mention resolves, the prompt of the completion
\* call is cut from the text of a record the mention matches, and every
\* passage of the search result comes from a record the mention matches.
C7_TargetIsSoleSource ==
    (chatCtx.found /\ Len(chatCtx.matching) > 0)
    => LET matched == {r \in SeqRange(documentStore) :
                          r.id \in SeqRange(chatCtx.matching)}
       IN  /\ calls.completion > 0 =>
                 \E r \in matched : calls.prompt = PromptPrefix(r.text)
           /\ \A k \in 1..Len(response.results) :
                 \E r \in matched : response.results[k].source = r.name

\* C8: the target is the non-whitespace run after the first '@' that starts
\* a token, the cleaned question is the question without that token,
\* trimmed, and the matches are the records whose name contains the target
\* case-insensitively; without a token there is no target and the question
\* is unchanged. "@report summarize" against Report.pdf and report_v2.docx
\* gives both records and "summarize".
C8_MentionParsing ==
    chatPc # "idle"
    => /\ IF HasToken(req.message)
          THEN /\ chatCtx.found
               /\ \E i \in 1..Len(req.message) : \E j \in i..Len(req.message) :
                     /\ FirstToken(req.message, i, j)
                     /\ chatCtx.target = SubSeq(req.message, i + 1, j)
                     /\ chatCtx.cleaned =
                           trim(SubSeq(req.message, 1, i - 1)
                                \o SubSeq(req.message, j + 1, Len(req.message)))
               /\ SeqRange(chatCtx.matching)
                     = NameMatches(documentStore, chatCtx.target)
               /\ Len(chatCtx.matching) = Cardinality(SeqRange(chatCtx.matching))
          ELSE /\ ~chatCtx.found
               /\ chatCtx.cleaned = req.message
       /\ req.message = MsgReportSummarize
             => /\ chatCtx.cleaned = Summarize
                /\ SeqRange(chatCtx.matching)
                      = {DocId(1, NameReport), DocId(2, NameReportV2)}

C8_Witness ==
    /\ chatPc = "fetch"
    /\ req.message = <<"@", " ", "@", "R", " ">>
    /\ chatCtx.target = <<"R">>
    /\ chatCtx.cleaned = <<"@">>
    /\ Len(chatCtx.matching) = 2

\* C13: once an answer is computed, whatever the chat_history and chats
\* inserts do (succeed, return an error, throw), for a request with a chat
\* id and for one without, the request is answered once, with status 200,
\* success and exactly the computed answer.
C13_PersistenceNeverLosesAnswer ==
    /\ response.kind # "none" => chatPc \in {"saveHistory", "createChat",
                                             "saveFirst", "done"}
    /\ (chatPc = "done" /\ response.kind # "none")
       => /\ reply.status = 200
          /\ reply.success
          /\ reply.answer = response
          /\ calls.replies = 1

\* a request without chat id whose session could not be created, answered
\* from the fallback search
C13_Witness ==
    /\ chatPc = "done"
    /\ req.chatId = NoChatId
    /\ reply.chatId = NoChatId
    /\ calls.persist = 1
    /\ response.kind = "search"
    /\ reply.answer = response

\* C11: when the extractor throws for a file, that run of processDocument
\* leaves the store as it was; the bootstrap loop goes on with the files
\* it has not visited, the other watcher callbacks stay in flight and the
\* subscription stays up.
C11_ExtractionFailureSkipsFile ==
    [][/\ (/\ bootPc = "extract"
            /\ ExtractionThrows(bootCur.content)
            /\ bootPc' # "extract")
           => /\ documentStore' = documentStore
              /\ bootFiles' = bootFiles
              /\ bootPc' = IF bootFiles = {} THEN "done" ELSE "loop"
              /\ tasks' = tasks
              /\ watcher' = watcher
       /\ \A t \in BagToSet(tasks) :
            (/\ t.stage = "extract"
             /\ ExtractionThrows(t.content)
             /\ tasks' = tasks (-) SetToBag({t}))
            => /\ documentStore' = documentStore
               /\ <<bootPc', bootFiles', bootCur'>> = <<bootPc, bootFiles, bootCur>>
               /\ watcher' = watcher]_vars

\* the bootstrap has skipped a.pdf, which the extractor throws on, and
\* still has ba.pdf to visit
C11_Witness ==
    /\ bootPc = "loop"
    /\ bootCur = NoFile
    /\ NameA \in DOMAIN disk
    /\ disk[NameA] = "corrupt"
    /\ NameA \notin bootFiles
    /\ NameBA \in bootFiles
    /\ documentStore = <<>>
    /\ fsOps = MaxFsOps

\* C12 (as claimed): no record of the store, whichever operation stored it,
\* has an empty or whitespace-only text: empty extractions are stored as
\* the placeholder.
C12_TextNeverBlank ==
    \A i \in 1..Len(documentStore) : trim(documentStore[i].text) # <<>>

\* C14 (as claimed): a step that puts a record into the store puts it under
\* a key no record had, after the records that were there, and leaves
\* those as they were.
C14_IngestionAddsFreshKey ==
    [][(\E i \in 1..Len(documentStore') :
           documentStore'[i] \notin SeqRange(documentStore))
       => /\ Len(documentStore') = Len(documentStore) + 1
          /\ SubSeq(documentStore', 1, Len(documentStore)) = documentStore
          /\ documentStore'[Len(documentStore')].id
                \notin SeqRange(Keys(documentStore))]_vars

\* the keywords of the question that the text of a result contains
KeywordHits(result) ==
    Len(SelectSeq(Keywords(chatCtx.cleaned),
                  LAMBDA word : includes(toLowerCase(result.text), word)))

\* C15: in a search result, a passage that contains two or more keywords of
\* the question has a strictly higher score than a passage that contains
\* exactly one, whatever their lengths and heading bonuses.
C15_MultiKeywordOutranksSingle ==
    \A a \in SeqRange(response.results) : \A b \in SeqRange(response.results) :
        (KeywordHits(a) >= 2 /\ KeywordHits(b) = 1)
        => a.score.num * b.score.den > b.score.num * a.score.den

\* a long passage with two keywords and no heading bonus next to a short
\* passage with one keyword and the heading bonus
C15_Witness ==
    /\ response.kind = "search"
    /\ \E a \in SeqRange(response.results) : \E b \in SeqRange(response.results) :
          /\ KeywordHits(a) = 2
          /\ Len(a.text) > HeadingMaxLength
          /\ KeywordHits(b) = 1
          /\ LooksLikeHeading(b.text)

\* no paragraph of more than 30 characters of any document contains a word
\* of more than 3 characters of the cleaned question
NothingMatches ==
    \A d \in SeqRange(documentStore) :
        \A q \in SeqRange(Paragraphs(d.text)) :
            \A word \in SeqRange(split(toLowerCase(chatCtx.cleaned), Whitespace, 1)) :
                Len(word) > MinKeywordLength => ~includes(toLowerCase(q), word)

\* C16: when the search has run and nothing matches, the answer is the
\* fixed no-match message, composed by the fallback branch, and it is what
\* the request is answered with, with success.
C16_NoMatchMessage ==
    (calls.search = 1 /\ NothingMatches)
    => /\ response = Answer("noMatch")
       /\ chatPc = "done" => (reply.success /\ reply.answer = response)

\* the only paragraph with the keyword "note" is too short to be eligible
C16_Witness ==
    /\ chatPc = "done"
    /\ documentStore = StoreReports
    /\ req.message = MsgNote
    /\ calls.search = 1
    /\ reply.answer = Answer("noMatch")

C18_RequestEventuallyAnswered ==
    (chatPc = "fetch") ~> (chatPc = "done")

\* C19 (as claimed): when a send completes, the message list holds exactly
\* one message with the id of the loading placeholder, of type assistant,
\* no message of type loading, and isLoading is false.
C19_LoadingReplaced ==
    [][(window.send.pc = "inflight" /\ window'.send.pc = "idle")
       => /\ Cardinality({i \in 1..Len(window'.messages) :
                /\ window'.messages[i].id = window.send.loadingId
                /\ window'.messages[i].type = "assistant"}) = 1
          /\ \A i \in 1..Len(window'.messages) :
                window'.messages[i].type # "loading"
          /\ ~window'.isLoading]_vars

\* the callback for a deleted file has run
DeletionRuns(t) ==
    /\ t.stage = "settle"
    /\ t.file \notin DOMAIN disk
    /\ WatchSettle(t)

\* C20 (as claimed): when several records derive from the deleted file,
\* the deletion callback removes the one stored last and leaves the rest.
C20_RemovesMostRecent ==
    [][\A t \in BagToSet(tasks) :
          (DeletionRuns(t) /\ Cardinality(RecordsNamed(documentStore, t.file)) > 1)
          => LET last == CHOOSE i \in RecordsNamed(documentStore, t.file) :
                            \A j \in RecordsNamed(documentStore, t.file) : j <= i
             IN  documentStore' =
                   SubSeq(documentStore, 1, last - 1)
                     \o SubSeq(documentStore, last + 1, Len(documentStore))
      ]_vars

----------------------------------------------------------------------------
(* Properties of the request pipeline *)

\* positions of the records whose name contains the target
MatchPositions(store, target) ==
    {i \in 1..Len(store) :
        includes(toLowerCase(store[i].name), toLowerCase(target))}

\* C21: when the mention of a request matches several records, the context
\* the handler assembles, and the prompt it sends, is the text of the record
\* that comes first in the store's enumeration order.
C21_FirstMatchIsContext ==
    (/\ chatPc # "idle"
     /\ chatCtx.found
     /\ Cardinality(MatchPositions(documentStore, chatCtx.target)) > 1)
    => LET hits == MatchPositions(documentStore, chatCtx.target)
           first == CHOOSE i \in hits : \A j \in hits : i <= j
       IN  /\ chatCtx.context = documentStore[first].text
           /\ calls.completion > 0
                => calls.prompt = SubSeq(documentStore[first].text, 1,
                      IF Len(documentStore[first].text) < PromptContextLimit
                      THEN Len(documentStore[first].text)
                      ELSE PromptContextLimit)

\* "@report summarize" against Report.pdf and report_v2.docx: the completion
\* is called with the text of Report.pdf
C21_Witness ==
    /\ chatPc = "fetch"
    /\ req.message = MsgReportSummarize
    /\ Cardinality(MatchPositions(documentStore, chatCtx.target)) = 2
    /\ chatCtx.context = TextReport
    /\ calls.prompt = TextReport

RECURSIVE Distinct(_)
\* the words of a list, each kept once, in the order of first occurrence
Distinct(q) ==
    IF q = <<>> THEN <<>>
    ELSE LET init == Distinct(SubSeq(q, 1, Len(q) - 1))
             last == q[Len(q)]
         IN  IF last \in SeqRange(init) THEN init ELSE Append(init, last)

\* C22 (as claimed): the score of every passage of a search result is the
\* score its distinct keywords give; a word repeated in the question counts
\* once.
C22_RepeatedWordCountsOnce ==
    response.kind = "search"
    => \A r \in SeqRange(response.results) :
          r.score = RelevanceScore(Distinct(Keywords(chatCtx.cleaned)), r.text)

\* the scored paragraphs of the request in encounter order: documents in
\* store order, paragraphs in text order
Encountered == MatchingParagraphs(documentStore, Keywords(chatCtx.cleaned))

\* the place of the k-th encountered paragraph in a stable descending order:
\* behind every paragraph of greater score and every earlier one of equal
\* score
RankOf(all, k) ==
    1 + Cardinality({j \in 1..Len(all) :
                        \/ ScoreGreater(all[j].score, all[k].score)
                        \/ /\ j < k
                           /\ ~ScoreGreater(all[k].score, all[j].score)})

\* C23: the result list has at most 5 passages, and it is the first 5 places
\* of the scored paragraphs ordered by non-increasing score with paragraphs
\* of equal score in encounter order; so every paragraph left out scores no
\* more than the last one listed.
C23_TopFiveStableOrder ==
    calls.search = 1
    => LET all == Encountered
           rank == [k \in 1..Len(all) |-> RankOf(all, k)]
           results == response.results
       IN  /\ Len(results) <= TopCount
           /\ Len(results) = (IF Len(all) < TopCount THEN Len(all) ELSE TopCount)
           /\ \A k \in 1..Len(all) :
                 rank[k] <= TopCount => results[rank[k]] = all[k]
           /\ \A i \in 1..Len(results) :
                 /\ \A j \in (i + 1)..Len(results) :
                       ~ScoreGreater(results[j].score, results[i].score)
                 /\ \A k \in 1..Len(all) :
                       rank[k] > TopCount
                       => ~ScoreGreater(all[k].score, results[i].score)

\* more than 5 paragraphs match, two listed passages of different text have
\* the same score, and a paragraph is left out
C23_Witness ==
    /\ calls.search = 1
    /\ Len(response.results) = TopCount
    /\ \E i \in 1..TopCount : \E j \in 1..TopCount :
          /\ i < j
          /\ response.results[i].text # response.results[j].text
          /\ ~ScoreGreater(response.results[i].score, response.results[j].score)
    /\ LET all == Encountered
       IN  /\ Len(all) > TopCount
           /\ \E k \in 1..Len(all) : RankOf(all, k) > TopCount

\* C24: the completion service is called at most once and only when the
\* precondition checks have passed; the search runs at most once and only
\* after the completion call has failed; an answer of the completion service
\* excludes a search; a request answered by a precondition check has run no
\* later stage.
C24_StageOrder ==
    /\ calls.completion <= 1
    /\ calls.search <= 1
    /\ calls.completion = 1
          => /\ Len(documentStore) > 0
             /\ chatCtx.found
                   => MatchPositions(documentStore, chatCtx.target) # {}
             /\ trim(chatCtx.context) # <<>>
             /\ apiKey
    /\ calls.search = 1
          => /\ calls.completion = 1
             /\ calls.outcome \in {"networkError", "badStatus", "malformed"}
    /\ response.kind = "completion"
          => calls.search = 0 /\ calls.outcome = "ok"
    /\ calls.persist > 0 => calls.completion = 1 /\ calls.outcome # "none"
    /\ reply.answer.kind \in {"noDocuments", "notFound", "configError"}
          => calls.completion = 0 /\ calls.search = 0 /\ calls.persist = 0

\* a request that went through every stage: completion called and failed,
\* search run, answer sent
C24_Witness ==
    /\ chatPc = "done"
    /\ calls.completion = 1
    /\ calls.outcome = "badStatus"
    /\ calls.search = 1
    /\ reply.answer.kind = "search"

\* C25 (as claimed): the documents the fallback search enumerates are the
\* documents that were in the store when the context of the request was
\* assembled.
C25_SearchSeesAssembledStore ==
    calls.search = 1 => calls.searched = calls.assembled

\* C25 (amended): the fallback search enumerates the store as it is when the
\* search runs, after the completion call has failed, whatever the store was
\* when the context was assembled.
C25_SearchSeesCurrentStore ==
    [][(calls.search = 0 /\ calls'.search = 1)
       => calls'.searched = documentStore]_vars

\* a record was stored while the completion call was pending, and the search
\* enumerated it
C25_Witness ==
    /\ calls.search = 1
    /\ Len(calls.assembled) = 1
    /\ Len(calls.searched) = 2
    /\ calls.searched = documentStore

\* C26 (as claimed): the deletion callback of one file leaves the record of
\* every other file that is on disk in the store.
C26_DeletionSparesOtherFiles ==
    [][\A t \in BagToSet(tasks) :
          DeletionRuns(t)
          => \A i \in 1..Len(documentStore) :
                (/\ documentStore[i].name # t.file
                 /\ documentStore[i].name \in DOMAIN disk)
                => documentStore[i] \in SeqRange(documentStore')]_vars

----------------------------------------------------------------------------
(* Properties of the upload operation *)

\* C27 (as claimed): after one upload request of one file the store never
\* holds more than one record, and holds exactly one once the request has
\* succeeded and the watcher has handled the events of the file.
C27_OneUploadOneRecord ==
    (upload.count = 1 /\ upload.sent = 1)
    => /\ Len(documentStore) <= 1
       /\ (upload.pc = "done" /\ upload.status = 200 /\ tasks = EmptyBag)
             => Len(documentStore) = 1

\* C29 (as claimed): when the first upload request, made on an empty store,
\* has reported failure, the store holds no record that the request's
\* handler inserted (the handler names its records by the original file
\* name).
C29_FailedUploadStoresNothing ==
    (upload.count = 1 /\ upload.pc = "done" /\ upload.status = 500)
    => \A i \in 1..Len(documentStore) :
          documentStore[i].name \notin {NameA, NameBA}

\* C28: the handler runs from the mention check to the context assembly
\* without an await, so both see the same store: a request with a mention
\* that is not rejected as "not found" gets for context the text of one
\* record whose name matches, never the texts of all documents.
C28_MentionChecksAgree ==
    [][(/\ chatPc = "idle"
        /\ chatPc' # "idle"
        /\ chatCtx'.found
        /\ reply'.answer.kind # "notFound")
       => /\ \E i \in MatchPositions(documentStore, chatCtx'.target) :
                chatCtx'.context = documentStore[i].text
          /\ Len(documentStore) > 1
                => chatCtx'.context # AllTexts(documentStore)]_vars

\* "@ba hi" arrives when a.pdf and ba.pdf are both stored: the context is
\* the text of ba.pdf alone
C28_Witness ==
    /\ chatPc = "fetch"
    /\ req.message = MsgAtBa
    /\ Len(calls.assembled) = 2
    /\ chatCtx.context = <<"v", "1">>

\* the handler is at an await: the completion call or a Supabase call
AwaitingExternal ==
    chatPc \in {"fetch", "saveHistory", "createChat", "saveFirst"}

\* C30: a request is answered at most once, it has been answered exactly
\* once when the handler has ended, and a handler that has not answered is
\* waiting for an external call.
C30_ExactlyOneResponse ==
    /\ calls.replies <= 1
    /\ chatPc = "done" <=> calls.replies = 1
    /\ (chatPc # "idle" /\ calls.replies = 0) => AwaitingExternal
    /\ calls.replies = 1 => reply.status \in {200, 400, 500}

\* answered once, after the completion failed, the search ran and both
\* Supabase calls of a new session returned
C30_Witness ==
    /\ chatPc = "done"
    /\ calls.replies = 1
    /\ calls.search = 1
    /\ calls.persist = 2
    /\ reply.chatId = "new"

====
